---- MODULE Spec2Model ----
(***************************************************************************)
(* The analytics event log of cursorhub (src/src/cursorhub/analytics.py):  *)
(* the SQLite table `events`, log_event that appends to it, the read       *)
(* queries over it and the health classifier; with them the feedback menu  *)
(* of the app (app.py), the model fallback of the AI analysis              *)
(* (ai_analysis.py) and the project registry and port allocation kept in   *)
(* config.json (config.py).                                                *)
(*                                                                         *)
(* Time is counted in ticks of 30 minutes.  datetime.isoformat() yields    *)
(* fixed-width text whose lexicographic order is the order of the instants,*)
(* so a timestamp is modelled by its tick number and the SQL comparisons   *)
(* on the text column by integer comparisons.                              *)
(* An average rating is a decimal number; it is modelled in hundredths     *)
(* (3.25 is 325), and round(x, 1) yields a multiple of 10.                 *)
(***************************************************************************)
EXTENDS Integers, Sequences, FiniteSets, TLC

\* ------------------------------------------------------------------ bounds
MaxEvents == 3
MaxLogClock == 1
MaxClock == 3
MaxRatingEvents == 4
MaxFeedbackEvents == 4
MaxUsed == 3
MaxEdits == 7

\* ------------------------------------------------------- program constants
PendingLimit == 3
MinRating == 1
MaxRating == 4
Hour == 2
Days30 == 1440
GreatThreshold == 350
GoodThreshold == 250
EditFactor == 2

\* SQL NULL / Python None in a text column, and in a numeric position.
NULL == "NULL"
None == 0 - 1
NoKey == 0 - 1
NoName == ""

VARIABLES events, now, n_ok, ret, config, pending_port_assignments

vars == <<events, now, n_ok, ret, config, pending_port_assignments>>

\* ------------------------------------------------------------- vocabulary
Prompts == {"p.md", "q.md"}
Projects == {"/proj/a", "/proj/b"}
UnknownPrompt == "none.md"
Ratings == MinRating..MaxRating

\* The last path segment, Path(project_path).name.
PathName(path) ==
  CASE path = "/proj/a" -> "a"
    [] path = "/proj/b" -> "b"
    [] OTHER -> path

\* ---------------------------------------------------------------- helpers
RECURSIVE SumOver(_, _)
SumOver(f, S) ==
  IF S = {} THEN 0
  ELSE LET x == CHOOSE y \in S : TRUE IN f[x] + SumOver(f, S \ {x})

MaxOf(S) == CHOOSE x \in S : \A y \in S : y <= x

Min2(a, b) == IF a <= b THEN a ELSE b

Range(s) == {s[i] : i \in DOMAIN s}

\* The rows of the table, by id (AUTOINCREMENT: the position in the log).
Rows(log) == DOMAIN log

\* SQL equality: never true when either side is NULL.
SqlEq(a, b) == a /= NULL /\ b /= NULL /\ a = b

\* **meta of a call, as the keyword arguments it passes.
Kwargs(rating, project_name, other) ==
  [rating |-> rating, project_name |-> project_name, other |-> other]

NoKwargs == Kwargs(NoKey, NoName, FALSE)

\* The meta column: NULL, or the JSON text of the keyword arguments, or (the
\* column is plain TEXT) text that is not JSON.
NullMeta ==
  [null |-> TRUE, malformed |-> FALSE, rating |-> NoKey, project_name |-> NoName]

MalformedMeta ==
  [null |-> FALSE, malformed |-> TRUE, rating |-> NoKey, project_name |-> NoName]

\* json.dumps(meta) if meta else None
json_dumps_meta(kw) ==
  IF kw.rating = NoKey /\ kw.project_name = NoName /\ ~kw.other
  THEN NullMeta
  ELSE [null |-> FALSE, malformed |-> FALSE,
        rating |-> kw.rating, project_name |-> kw.project_name]

\* json_extract(meta, '$.rating'): NULL for a NULL column or a missing key.
json_extract_rating(meta) ==
  IF meta.null THEN None
  ELSE IF meta.rating = NoKey THEN None ELSE meta.rating

\* ------------------------------------------------------------- log_event
Row(ts, event, prompt_filename, project_path, meta) ==
  [timestamp |-> ts, event |-> event, prompt_filename |-> prompt_filename,
   project_path |-> project_path, meta |-> meta]

LogFaults == {"none", "open", "create", "insert", "commit"}

\* _get_db: connect, then create the table and the indexes.
get_db(fault) == [exc |-> fault \in {"open", "create"}]

\* Variants of log_event: a failed commit that leaves the row behind, and an
\* insert that replaces a row of the same kind, prompt and project.
log_event_mut_commit(log, clock, call, fault) ==
  LET row == Row(clock, call.event, call.prompt_filename, call.project_path,
                 json_dumps_meta(call.kwargs))
  IN  IF fault \in {"open", "create", "insert"}
      THEN [events |-> log, raised |-> FALSE]
      ELSE [events |-> Append(log, row), raised |-> FALSE]

log_event_mut_upsert(log, clock, call, fault) ==
  LET row == Row(clock, call.event, call.prompt_filename, call.project_path,
                 json_dumps_meta(call.kwargs))
      same == {i \in DOMAIN log : /\ log[i].event = row.event
                                  /\ log[i].prompt_filename = row.prompt_filename
                                  /\ log[i].project_path = row.project_path}
  IN  IF fault /= "none"
      THEN [events |-> log, raised |-> FALSE]
      ELSE IF same = {}
           THEN [events |-> Append(log, row), raised |-> FALSE]
           ELSE [events |-> [i \in DOMAIN log |-> IF i \in same THEN row ELSE log[i]],
                 raised |-> FALSE]

\* Variant: the table keeps the newest two rows (a rotated log).
log_event_mut_rotate(log, clock, call, fault) ==
  LET row == Row(clock, call.event, call.prompt_filename, call.project_path,
                 json_dumps_meta(call.kwargs))
  IN  IF fault /= "none"
      THEN [events |-> log, raised |-> FALSE]
      ELSE IF Len(log) < 2
           THEN [events |-> Append(log, row), raised |-> FALSE]
           ELSE [events |-> Append(Tail(log), row), raised |-> FALSE]

\* log_event, the whole call: the try block runs _get_db, INSERT (into the
\* connection's open transaction) and commit; an exception at any of them
\* leaves the block, the connection is dropped and its transaction rolled back.
\* except Exception: pass.
log_event(log, clock, call, fault) ==
  LET conn == get_db(fault)
      row == Row(clock, call.event, call.prompt_filename, call.project_path,
                 json_dumps_meta(call.kwargs))
      txn == IF conn.exc \/ fault = "insert" THEN <<>> ELSE <<row>>
      exc == conn.exc \/ fault = "insert" \/ fault = "commit"
      committed == IF exc THEN log ELSE log \o txn
  IN  [events |-> committed, raised |-> FALSE]

\* ------------------------------------------------------ get_prompt_stats
Stats(times_used, last_used, avg_rating, rating_count, edit_count, projects) ==
  [times_used |-> times_used, last_used |-> last_used,
   avg_rating |-> avg_rating, rating_count |-> rating_count,
   edit_count |-> edit_count, projects |-> projects]

empty_stats == Stats(0, None, None, 0, 0, <<>>)

\* round(sum / cnt, 1), in hundredths.  Python rounds the double to the
\* nearest tenth and an exact tie to the even tenth.  The double sum / cnt is
\* an exact tie only at odd quarters (x.25, x.75), which are exact doubles, as
\* long as cnt < 20: a tie at a non-dyadic value needs a denominator of 20.
round_1(sum, cnt) ==
  LET n == 10 * sum
      q == n \div cnt
      r == n % cnt
  IN  10 * (IF 2 * r < cnt THEN q
            ELSE IF 2 * r > cnt THEN q + 1
            ELSE IF q % 2 = 0 THEN q ELSE q + 1)

\* WHERE event = 'prompt_applied' AND prompt_filename = ?
AppliedRows(log, filename) ==
  {i \in Rows(log) : log[i].event = "prompt_applied"
                     /\ SqlEq(log[i].prompt_filename, filename)}

EventRows(log, kind) == {i \in Rows(log) : log[i].event = kind}

\* SQLite raises "malformed JSON" when json_extract is evaluated on a row
\* whose meta is not JSON, json.loads raises JSONDecodeError: the call then
\* leaves its try block for the except branch.
MalformedIn(log, rows) == \E i \in rows : log[i].meta.malformed

\* The rows json_extract is evaluated on in get_prompt_stats: those that pass
\* the indexed terms of the WHERE clause.
FeedbackRows(log, filename) ==
  {i \in Rows(log) : log[i].event = "feedback_given"
                     /\ SqlEq(log[i].prompt_filename, filename)}

\* WHERE event = 'feedback_given' AND prompt_filename = ?
\*   AND json_extract(meta, '$.rating') IS NOT NULL
RatedRows(log, filename) ==
  {i \in Rows(log) : log[i].event = "feedback_given"
                     /\ SqlEq(log[i].prompt_filename, filename)
                     /\ json_extract_rating(log[i].meta) /= None}

\* Variant: the edit count not restricted to the prompt.
EditedRows_mut_any(log, filename) ==
  {i \in Rows(log) : log[i].event = "prompt_edited"}

\* WHERE event = 'prompt_edited' AND prompt_filename = ?
EditedRows(log, filename) ==
  {i \in Rows(log) : log[i].event = "prompt_edited"
                     /\ SqlEq(log[i].prompt_filename, filename)}

RatingSum(log, rows) ==
  SumOver([i \in rows |-> json_extract_rating(log[i].meta)], rows)

\* Variant: the timestamp of the row appended last.
MaxTimestamp_mut_last_appended(log, rows) ==
  IF rows = {} THEN None ELSE log[MaxOf(rows)].timestamp

MaxTimestamp(log, rows) ==
  IF rows = {} THEN None ELSE MaxOf({log[i].timestamp : i \in rows})

\* The distinct non-NULL project_path values of the rows, in id order (SQL
\* leaves the order of DISTINCT unspecified; the claims compare them as sets).
RECURSIVE DistinctProjects(_, _, _, _)
DistinctProjects(log, rows, i, acc) ==
  IF i > Len(log) THEN acc
  ELSE IF i \in rows /\ log[i].project_path /= NULL
          /\ log[i].project_path \notin Range(acc)
       THEN DistinctProjects(log, rows, i + 1, Append(acc, log[i].project_path))
       ELSE DistinctProjects(log, rows, i + 1, acc)

\* Variant: a missing average read as 0 (round(avg_r or 0, 1)).
prompt_stats_query_mut_zero(log, filename) ==
  LET applied == AppliedRows(log, filename)
      rated == RatedRows(log, filename)
      sum == RatingSum(log, rated)
      cnt == Cardinality(rated)
  IN  Stats(Cardinality(applied),
            MaxTimestamp(log, applied),
            IF cnt > 0 THEN round_1(sum, cnt) ELSE 0,
            cnt,
            Cardinality(EditedRows(log, filename)),
            DistinctProjects(log, applied, 1, <<>>))

\* The four passes of get_prompt_stats over one state of the table.
prompt_stats_query(log, filename) ==
  LET applied == AppliedRows(log, filename)
      rated == RatedRows(log, filename)
      sum == RatingSum(log, rated)
      cnt == Cardinality(rated)
      \* AVG over no row is NULL; `if rating_row["avg_r"]` is also false at 0.0
      truthy == cnt > 0 /\ sum /= 0
  IN  Stats(Cardinality(applied),
            MaxTimestamp(log, applied),
            IF truthy THEN round_1(sum, cnt) ELSE None,
            IF truthy THEN cnt ELSE 0,
            Cardinality(EditedRows(log, filename)),
            DistinctProjects(log, applied, 1, <<>>))

ReadFaults == {"none", "query"}

\* get_prompt_stats: try the query, except Exception: the zero stats.
get_prompt_stats(log, filename, fault) ==
  IF fault /= "none" \/ MalformedIn(log, FeedbackRows(log, filename))
  THEN [raised |-> FALSE, value |-> empty_stats]
  ELSE [raised |-> FALSE, value |-> prompt_stats_query(log, filename)]

\* -------------------------------------------------- get_all_prompt_stats
\* Variant: NULL counted as one more prompt name.
AppliedNames_mut_null_counts(log) ==
  {log[i].prompt_filename : i \in {j \in Rows(log) : log[j].event = "prompt_applied"}}

AppliedNames(log) ==
  {log[i].prompt_filename : i \in {j \in Rows(log) :
      log[j].event = "prompt_applied" /\ log[j].prompt_filename /= NULL}}

RatedNames(log) ==
  {log[i].prompt_filename : i \in {j \in Rows(log) :
      log[j].event = "feedback_given" /\ log[j].prompt_filename /= NULL
      /\ json_extract_rating(log[j].meta) /= None}}

EditedNames(log) ==
  {log[i].prompt_filename : i \in {j \in Rows(log) :
      log[j].event = "prompt_edited" /\ log[j].prompt_filename /= NULL}}

\* Variant: the entry is started afresh by each pass.
SetDefault_mut_reset(stats, fn) == empty_stats

\* stats.setdefault(fn, _empty_stats())
SetDefault(stats, fn) == IF fn \in DOMAIN stats THEN stats[fn] ELSE empty_stats

\* The four grouped passes of get_all_prompt_stats.
all_prompt_stats_query(log) ==
  LET usage == [fn \in AppliedNames(log) |->
                  [empty_stats EXCEPT
                     !.times_used = Cardinality(AppliedRows(log, fn)),
                     !.last_used = MaxTimestamp(log, AppliedRows(log, fn))]]
      ratings == [fn \in DOMAIN usage \cup RatedNames(log) |->
                  IF fn \in RatedNames(log)
                  THEN LET rated == RatedRows(log, fn)
                           sum == RatingSum(log, rated)
                           cnt == Cardinality(rated)
                       IN  [SetDefault(usage, fn) EXCEPT
                              !.avg_rating = IF sum /= 0 THEN round_1(sum, cnt)
                                             ELSE None,
                              !.rating_count = cnt]
                  ELSE usage[fn]]
      edits == [fn \in DOMAIN ratings \cup EditedNames(log) |->
                  IF fn \in EditedNames(log)
                  THEN [SetDefault(ratings, fn) EXCEPT
                          !.edit_count = Cardinality(EditedRows(log, fn))]
                  ELSE ratings[fn]]
  IN  [fn \in DOMAIN edits |->
         [edits[fn] EXCEPT
            !.projects = DistinctProjects(log, AppliedRows(log, fn), 1, <<>>)]]

\* The empty dict of the except branch.
EmptyMap == [fn \in {} |-> empty_stats]

get_all_prompt_stats(log, fault) ==
  IF fault /= "none"
     \/ MalformedIn(log, {i \in EventRows(log, "feedback_given") :
                            log[i].prompt_filename /= NULL})
  THEN [raised |-> FALSE, value |-> EmptyMap]
  ELSE [raised |-> FALSE, value |-> all_prompt_stats_query(log)]

\* ------------------------------------------------- ORDER BY ... LIMIT
\* Variant: ORDER BY timestamp ASC.
NewestFirst_mut_oldest(log, E, k) ==
  LET n == Min2(k, Cardinality(E))
  IN  {s \in [1..n -> E] :
         /\ \A a, b \in 1..n : a < b =>
               /\ s[a] /= s[b]
               /\ log[s[a]].timestamp <= log[s[b]].timestamp
         /\ \A j \in E : (\A a \in 1..n : s[a] /= j) =>
               \A a \in 1..n : log[j].timestamp >= log[s[a]].timestamp}

\* Variant: ORDER BY id DESC, the append order.
NewestFirst_mut_by_id(log, E, k) ==
  LET n == Min2(k, Cardinality(E))
  IN  {s \in [1..n -> E] :
         /\ \A a, b \in 1..n : a < b => s[a] > s[b]
         /\ \A j \in E : (\A a \in 1..n : s[a] /= j) =>
               \A a \in 1..n : j < s[a]}

\* ORDER BY timestamp DESC LIMIT k over the rows E: SQL leaves the order of
\* rows with equal timestamps unspecified, so every selection that is sorted
\* and keeps out no row newer than one it keeps is a possible answer.
NewestFirst(log, E, k) ==
  LET n == Min2(k, Cardinality(E))
  IN  {s \in [1..n -> E] :
         /\ \A a, b \in 1..n : a < b =>
               /\ s[a] /= s[b]
               /\ log[s[a]].timestamp >= log[s[b]].timestamp
         /\ \A j \in E : (\A a \in 1..n : s[a] /= j) =>
               \A a \in 1..n : log[j].timestamp <= log[s[a]].timestamp}

\* -------------------------------------------------- get_pending_feedback
\* Variant: the subquery compares the prompt only.
FeedbackExists_mut_prompt_only(log, kind, e) ==
  \E f \in Rows(log) :
     /\ log[f].event = kind
     /\ SqlEq(log[f].prompt_filename, e.prompt_filename)

\* Variant: only a feedback event stamped after the application counts.
FeedbackExists_mut_after(log, kind, e) ==
  \E f \in Rows(log) :
     /\ log[f].event = kind
     /\ SqlEq(log[f].prompt_filename, e.prompt_filename)
     /\ SqlEq(log[f].project_path, e.project_path)
     /\ log[f].timestamp > e.timestamp

\* Variant: a feedback event without a project answers for every project.
FeedbackExists_mut_null_matches(log, kind, e) ==
  \E f \in Rows(log) :
     /\ log[f].event = kind
     /\ SqlEq(log[f].prompt_filename, e.prompt_filename)
     /\ (log[f].project_path = NULL \/ SqlEq(log[f].project_path, e.project_path))

\* EXISTS (SELECT 1 FROM events f WHERE f.event = kind
\*         AND f.prompt_filename = e.prompt_filename
\*         AND f.project_path = e.project_path)
FeedbackExists(log, kind, e) ==
  \E f \in Rows(log) :
     /\ log[f].event = kind
     /\ SqlEq(log[f].prompt_filename, e.prompt_filename)
     /\ SqlEq(log[f].project_path, e.project_path)

\* Variant: the hour is not taken off.
Cutoff_mut_now(clock) == clock

\* cutoff = now - timedelta(hours=1)
Cutoff(clock) == clock - Hour

\* Variant: an application is asked about for 90 minutes only.
PendingRows_mut_expiry(log, clock) ==
  {i \in Rows(log) :
     /\ log[i].event = "prompt_applied"
     /\ log[i].prompt_filename /= NULL
     /\ log[i].project_path /= NULL
     /\ log[i].timestamp < Cutoff(clock)
     /\ log[i].timestamp >= Cutoff(clock) - 1
     /\ ~FeedbackExists(log, "feedback_given", log[i])
     /\ ~FeedbackExists(log, "feedback_skipped", log[i])}

\* The WHERE clause of the pending-feedback query.
PendingRows(log, clock) ==
  {i \in Rows(log) :
     /\ log[i].event = "prompt_applied"
     /\ log[i].prompt_filename /= NULL
     /\ log[i].project_path /= NULL
     /\ log[i].timestamp < Cutoff(clock)
     /\ ~FeedbackExists(log, "feedback_given", log[i])
     /\ ~FeedbackExists(log, "feedback_skipped", log[i])}

\* meta.get("project_name", Path(r["project_path"]).name)
ProjectNameOf(row) ==
  IF row.meta.null \/ row.meta.project_name = NoName
  THEN PathName(row.project_path) ELSE row.meta.project_name

PendingEntry(row) ==
  [prompt_filename |-> row.prompt_filename, project_path |-> row.project_path,
   project_name |-> ProjectNameOf(row), created_at |-> row.timestamp]

\* The possible results of get_pending_feedback.
get_pending_feedback(log, clock, fault) ==
  IF fault /= "none"
  THEN {[raised |-> FALSE, value |-> <<>>]}
  ELSE {[raised |-> FALSE,
         value |-> IF MalformedIn(log, Range(s)) THEN <<>>
                   ELSE [a \in DOMAIN s |-> PendingEntry(log[s[a]])]] :
          s \in NewestFirst(log, PendingRows(log, clock), PendingLimit)}

\* ----------------------------------------------------- get_overall_stats
Overall(created, prompts_used, applications, most_used, avg_all, recent) ==
  [total_projects_created |-> created, total_prompts_used |-> prompts_used,
   total_prompt_applications |-> applications, most_used_prompt |-> most_used,
   avg_rating_all |-> avg_all, events_last_30_days |-> recent]

empty_overall == Overall(0, 0, 0, NULL, None, 0)

\* Variant: ORDER BY cnt ASC.
MostUsedCandidates_mut_least(log) ==
  LET names == AppliedNames(log)
  IN  IF names = {} THEN {NULL}
      ELSE {fn \in names : \A g \in names :
              Cardinality(AppliedRows(log, g)) >= Cardinality(AppliedRows(log, fn))}

\* GROUP BY prompt_filename ORDER BY cnt DESC LIMIT 1: one of the groups with
\* the largest count (SQL leaves the choice among equals open), or no row.
MostUsedCandidates(log) ==
  LET names == AppliedNames(log)
  IN  IF names = {} THEN {NULL}
      ELSE {fn \in names : \A g \in names :
              Cardinality(AppliedRows(log, g)) <= Cardinality(AppliedRows(log, fn))}

\* WHERE event = 'feedback_given' AND json_extract(meta, '$.rating') IS NOT NULL
AllRatedRows(log) ==
  {i \in Rows(log) : log[i].event = "feedback_given"
                     /\ json_extract_rating(log[i].meta) /= None}

\* cutoff_30d = now - timedelta(days=30); COUNT(*) WHERE timestamp > ?
RecentRows(log, clock) ==
  {i \in Rows(log) : log[i].timestamp > clock - Days30}

overall_stats_query(log, clock, most_used) ==
  LET rated == AllRatedRows(log)
      sum == RatingSum(log, rated)
      cnt == Cardinality(rated)
  IN  Overall(Cardinality(EventRows(log, "project_created")),
              Cardinality(AppliedNames(log)),
              Cardinality(EventRows(log, "prompt_applied")),
              most_used,
              IF cnt > 0 /\ sum /= 0 THEN round_1(sum, cnt) ELSE None,
              Cardinality(RecentRows(log, clock)))

\* Variant: no except branch, a storage error reaches the caller.
get_overall_stats_mut_noexcept(log, clock, fault) ==
  IF fault /= "none"
  THEN {[raised |-> TRUE, value |-> empty_overall]}
  ELSE {[raised |-> FALSE, value |-> overall_stats_query(log, clock, m)] :
          m \in MostUsedCandidates(log)}

\* The possible results of get_overall_stats.
get_overall_stats(log, clock, fault) ==
  IF fault /= "none" \/ MalformedIn(log, EventRows(log, "feedback_given"))
  THEN {[raised |-> FALSE, value |-> empty_overall]}
  ELSE {[raised |-> FALSE, value |-> overall_stats_query(log, clock, m)] :
          m \in MostUsedCandidates(log)}

\* ---------------------------------------------------- get_recent_activity
\* json.loads(r["meta"]) if r["meta"] else {}
json_loads_meta(meta) ==
  IF meta.null THEN [rating |-> NoKey, project_name |-> NoName]
  ELSE [rating |-> meta.rating, project_name |-> meta.project_name]

ActivityEntry(row) == [row EXCEPT !.meta = json_loads_meta(row.meta)]

\* The possible results of get_recent_activity(limit).
get_recent_activity(log, limit, fault) ==
  IF fault /= "none"
  THEN {[raised |-> FALSE, value |-> <<>>]}
  ELSE {[raised |-> FALSE,
         value |-> IF MalformedIn(log, Range(s)) THEN <<>>
                   ELSE [a \in DOMAIN s |-> ActivityEntry(log[s[a]])]] :
          s \in NewestFirst(log, Rows(log), limit)}

\* --------------------------------------------------- compute_prompt_health
\* Variants: strict thresholds; the rating looked at before the usage; a
\* rework signal that fires at exactly twice the usage.
compute_prompt_health_mut_strict(stats) ==
  IF stats.times_used = 0
  THEN IF stats.edit_count > 0 THEN "unused" ELSE "new"
  ELSE IF stats.avg_rating /= None
       THEN IF stats.avg_rating > GreatThreshold THEN "great"
            ELSE IF stats.avg_rating > GoodThreshold THEN "good"
            ELSE "needs_attention"
       ELSE IF stats.edit_count > stats.times_used * EditFactor
            THEN "needs_attention"
            ELSE "good"

compute_prompt_health_mut_rating_first(stats) ==
  IF stats.avg_rating /= None
  THEN IF stats.avg_rating >= GreatThreshold THEN "great"
       ELSE IF stats.avg_rating >= GoodThreshold THEN "good"
       ELSE "needs_attention"
  ELSE IF stats.times_used = 0
       THEN IF stats.edit_count > 0 THEN "unused" ELSE "new"
       ELSE IF stats.edit_count > stats.times_used * EditFactor
            THEN "needs_attention"
            ELSE "good"

compute_prompt_health_mut_rework_ge(stats) ==
  IF stats.times_used = 0
  THEN IF stats.edit_count > 0 THEN "unused" ELSE "new"
  ELSE IF stats.avg_rating /= None
       THEN IF stats.avg_rating >= GreatThreshold THEN "great"
            ELSE IF stats.avg_rating >= GoodThreshold THEN "good"
            ELSE "needs_attention"
       ELSE IF stats.edit_count >= stats.times_used * EditFactor
            THEN "needs_attention"
            ELSE "good"

\* compute_prompt_health: times_used, avg_rating and edit_count of the stats.
compute_prompt_health(stats) ==
  IF stats.times_used = 0
  THEN IF stats.edit_count > 0 THEN "unused" ELSE "new"
  ELSE IF stats.avg_rating /= None
       THEN IF stats.avg_rating >= GreatThreshold THEN "great"
            ELSE IF stats.avg_rating >= GoodThreshold THEN "good"
            ELSE "needs_attention"
       ELSE IF stats.edit_count > stats.times_used * EditFactor
            THEN "needs_attention"
            ELSE "good"

\* ------------------------------------------------------------- producers
\* apply_prompt_to_project: log_event("prompt_applied", ..., variable_names=...)
ApplyPrompt(p, j) ==
  [event |-> "prompt_applied", prompt_filename |-> p, project_path |-> j,
   kwargs |-> Kwargs(NoKey, NoName, TRUE)]

\* _submit_feedback, rating in 1..4
FeedbackGiven(p, j, r) ==
  [event |-> "feedback_given", prompt_filename |-> p, project_path |-> j,
   kwargs |-> Kwargs(r, PathName(j), FALSE)]

\* _submit_feedback, rating 0
FeedbackSkipped(p, j) ==
  [event |-> "feedback_skipped", prompt_filename |-> p, project_path |-> j,
   kwargs |-> NoKwargs]

\* A feedback_given row without a project, as the seed script writes them:
\* project_path keeps log_event's default None.
FeedbackSeeded(p, r) ==
  [event |-> "feedback_given", prompt_filename |-> p, project_path |-> NULL,
   kwargs |-> Kwargs(r, "Test Project", FALSE)]

\* create_prompt: log_event("prompt_created", ..., category=, environment=)
PromptCreated(p) ==
  [event |-> "prompt_created", prompt_filename |-> p, project_path |-> NULL,
   kwargs |-> Kwargs(NoKey, NoName, TRUE)]

\* The new-project dialog: log_event("project_created",
\* prompt_filename=prompt_filename or None, ..., project_name=display_name)
ProjectCreated(p, j) ==
  [event |-> "project_created", prompt_filename |-> p, project_path |-> j,
   kwargs |-> Kwargs(NoKey, PathName(j), TRUE)]

\* update_prompt: log_event("prompt_edited", ..., diff_chars=...)
PromptEdited(p) ==
  [event |-> "prompt_edited", prompt_filename |-> p, project_path |-> NULL,
   kwargs |-> Kwargs(NoKey, NoName, TRUE)]

\* ------------------------------------------------------------ config.json
\* The registry file: the active and the archived project lists.  A list the
\* file does not hold reads as empty (config.get(key, [])).
DEFAULT_CONFIG == [projects |-> <<>>, archived_projects |-> <<>>]

\* Starting port for each variable-name prefix.
PORT_RANGES ==
  [frontend |-> 3000, client |-> 3100, web |-> 3200, backend |-> 8000,
   api |-> 8100, server |-> 8200, worker |-> 9000, queue |-> 9100,
   job |-> 9200, other |-> 4000]

PortVarNames == {"frontend_port", "frontend_api_port", "port"}

\* var_name.replace("_port", "").split("_")[0].lower()
Prefix(var_name) ==
  CASE var_name = "frontend_port" -> "frontend"
    [] var_name = "frontend_api_port" -> "frontend"
    [] var_name = "port" -> "port"
    [] OTHER -> var_name

port_range_for(var_name) ==
  LET prefix == Prefix(var_name)
  IN  IF prefix \in DOMAIN PORT_RANGES THEN PORT_RANGES[prefix]
      ELSE PORT_RANGES.other

\* The paths callers pass, and str(Path(path).expanduser().resolve()).
RawPaths == Projects \cup {"/proj/a/"}

resolve(path) == IF path = "/proj/a/" THEN "/proj/a" ELSE path

ProjectNames == {"one", "two"}
Repos == {"", "git@host:a.git"}

\* A dict of port variables: the key set is the domain.
NoPorts == [v \in {} |-> 0]

Values(d) == {d[k] : k \in DOMAIN d}

\* dict.update and d[key] = value.
Updated(d, other) ==
  [k \in DOMAIN d \cup DOMAIN other |-> IF k \in DOMAIN other THEN other[k] ELSE d[k]]

SetItem(d, key, value) ==
  [k \in DOMAIN d \cup {key} |-> IF k = key THEN value ELSE d[k]]

PortsOf(lst) == UNION {Values(lst[i].ports) : i \in DOMAIN lst}

get_all_allocated_ports_mut_active_only(cfg) == PortsOf(cfg.projects)

get_all_allocated_ports(cfg) ==
  PortsOf(cfg.projects) \cup PortsOf(cfg.archived_projects)

\* port = base; while port in taken: port += 1
FirstFree(base, taken) ==
  CHOOSE port \in base..(base + Cardinality(taken)) :
    /\ port \notin taken
    /\ \A q \in base..(port - 1) : q \in taken

RECURSIVE allocate_loop(_, _, _)
allocate_loop(names, used, assignments) ==
  IF names = <<>> THEN assignments
  ELSE LET var == Head(names)
           port == FirstFree(port_range_for(var), used \cup Values(assignments))
       IN  allocate_loop(Tail(names), used \cup {port},
                         SetItem(assignments, var, port))

allocate_ports(cfg, port_var_names) ==
  allocate_loop(port_var_names, get_all_allocated_ports(cfg), NoPorts)

WithPath(lst, abs_path) == {i \in DOMAIN lst : lst[i].path = abs_path}

Without(lst, abs_path) ==
  LET Keep(p) == p.path /= abs_path IN SelectSeq(lst, Keep)

FirstOf(S) == CHOOSE i \in S : \A j \in S : i <= j

\* The first project with the path, in the active list and then in the
\* archived one, gets the ports; no project with the path: nothing is stored.
set_project_ports(cfg, path, ports, merge) ==
  LET abs_path == resolve(path)
      Stored(p) == [p EXCEPT !.ports = IF merge THEN Updated(p.ports, ports)
                                       ELSE ports]
      active == WithPath(cfg.projects, abs_path)
      archived == WithPath(cfg.archived_projects, abs_path)
  IN  IF active /= {}
        THEN [cfg EXCEPT !.projects[FirstOf(active)] = Stored(@)]
      ELSE IF archived /= {}
        THEN [cfg EXCEPT !.archived_projects[FirstOf(archived)] = Stored(@)]
      ELSE cfg

\* The duplicate check reads the active list only.
add_project(cfg, name, path, repo, created_at) ==
  LET abs_path == resolve(path)
      active == WithPath(cfg.projects, abs_path)
      project == [name |-> name, path |-> abs_path, created_at |-> created_at,
                  repo |-> repo, ports |-> NoPorts]
  IN  IF active /= {}
        THEN [cfg EXCEPT !.projects[FirstOf(active)] =
                [@ EXCEPT !.name = name,
                          !.repo = IF repo /= "" THEN repo ELSE @]]
      ELSE [cfg EXCEPT !.projects = Append(@, project)]

remove_project(cfg, path) ==
  [cfg EXCEPT !.projects = Without(@, resolve(path))]

\* The loop keeps the last project with the path; one already archived under
\* the path stays and the project taken off the active list is dropped.
archive_project(cfg, path) ==
  LET abs_path == resolve(path)
      found == WithPath(cfg.projects, abs_path)
  IN  IF found = {} THEN cfg
      ELSE [projects |-> Without(cfg.projects, abs_path),
            archived_projects |->
              IF WithPath(cfg.archived_projects, abs_path) /= {}
                THEN cfg.archived_projects
              ELSE Append(cfg.archived_projects, cfg.projects[MaxOf(found)])]

unarchive_project(cfg, path) ==
  LET abs_path == resolve(path)
      found == WithPath(cfg.archived_projects, abs_path)
  IN  IF found = {} THEN cfg
      ELSE [projects |->
              IF WithPath(cfg.projects, abs_path) /= {} THEN cfg.projects
              ELSE Append(cfg.projects, cfg.archived_projects[MaxOf(found)]),
            archived_projects |-> Without(cfg.archived_projects, abs_path)]

delete_project(cfg, path) ==
  [projects |-> Without(cfg.projects, resolve(path)),
   archived_projects |-> Without(cfg.archived_projects, resolve(path))]

\* ---------------------------------------------------------------- state
\* ret is what the last call gave back to its caller: the operation, its
\* argument, the storage fault the call met, whether it raised, its value.
NoCall ==
  [op |-> "none", arg |-> NULL, fault |-> "none", raised |-> FALSE, value |-> NULL]

Returned(op, arg, fault, r) ==
  [op |-> op, arg |-> arg, fault |-> fault, raised |-> r.raised, value |-> r.value]

Init ==
  /\ events = <<>>
  /\ now = 0
  /\ n_ok = 0
  /\ ret = NoCall
  /\ config = DEFAULT_CONFIG
  /\ pending_port_assignments = NoPorts

\* --------------------------------------------------------------- actions
\* One call of log_event; n_ok counts the calls the storage did not fail.
LogEvent(call, fault, cap) ==
  /\ Len(events) < cap
  /\ LET r == log_event(events, now, call, fault)
     IN  /\ events' = r.events
         /\ ret' = [op |-> "log_event", arg |-> call, fault |-> fault,
                    raised |-> r.raised, value |-> NULL]
  /\ n_ok' = IF fault = "none" THEN n_ok + 1 ELSE n_ok
  /\ UNCHANGED <<now, config, pending_port_assignments>>

\* datetime.now() is the naive local wall-clock time: it steps back by an hour
\* at the end of daylight saving time.
ClockBack(floor) ==
  /\ now - Hour >= floor
  /\ now' = now - Hour
  /\ ret' = NoCall
  /\ UNCHANGED <<events, n_ok, config, pending_port_assignments>>

\* A stretch of d ticks passes with no call.
Elapse(d, cap) ==
  /\ now + d <= cap
  /\ now' = now + d
  /\ ret' = NoCall
  /\ UNCHANGED <<events, n_ok, config, pending_port_assignments>>

\* Another writer of analytics.db inserts a row whose meta text is not JSON
\* (the column is TEXT, without a constraint).
ForeignInsert(event, p, j, cap) ==
  /\ Len(events) < cap
  /\ events' = Append(events, Row(now, event, p, j, MalformedMeta))
  /\ ret' = NoCall
  /\ UNCHANGED <<now, n_ok, config, pending_port_assignments>>

\* The wall clock advances by one tick.
Tick(cap) ==
  /\ now < cap
  /\ now' = now + 1
  /\ ret' = NoCall
  /\ UNCHANGED <<events, n_ok, config, pending_port_assignments>>

GetPromptStats(filename, fault) ==
  /\ ret' = Returned("get_prompt_stats", filename, fault,
                     get_prompt_stats(events, filename, fault))
  /\ UNCHANGED <<events, now, n_ok, config, pending_port_assignments>>

GetAllPromptStats(fault) ==
  /\ ret' = Returned("get_all_prompt_stats", NULL, fault,
                     get_all_prompt_stats(events, fault))
  /\ UNCHANGED <<events, now, n_ok, config, pending_port_assignments>>

GetOverallStats(fault) ==
  /\ \E r \in get_overall_stats(events, now, fault) :
        ret' = Returned("get_overall_stats", NULL, fault, r)
  /\ UNCHANGED <<events, now, n_ok, config, pending_port_assignments>>

GetRecentActivity(limit, fault) ==
  /\ \E r \in get_recent_activity(events, limit, fault) :
        ret' = Returned("get_recent_activity", limit, fault, r)
  /\ UNCHANGED <<events, now, n_ok, config, pending_port_assignments>>

\* Variant: the call records what it offered as events of the log.
GetPendingFeedback_mut_marks(fault) ==
  /\ \E r \in get_pending_feedback(events, now, fault) :
        /\ ret' = Returned("get_pending_feedback", NULL, fault, r)
        /\ events' = events \o
              [a \in DOMAIN r.value |->
                 Row(now, "feedback_offered", r.value[a].prompt_filename,
                     r.value[a].project_path, NullMeta)]
  /\ UNCHANGED <<now, n_ok, config, pending_port_assignments>>

GetPendingFeedback(fault) ==
  /\ \E r \in get_pending_feedback(events, now, fault) :
        ret' = Returned("get_pending_feedback", NULL, fault, r)
  /\ UNCHANGED <<events, now, n_ok, config, pending_port_assignments>>

\* get_prompt_stats statement by statement, as a thread that shares the
\* database with an appending thread runs it: each conn.execute is a SELECT
\* in autocommit mode and reads the log as committed at that moment.  ret
\* holds the call in progress: the statement reached, the log size at the
\* start of the call and the fields computed so far.
StatsUsagePass(filename) ==
  /\ ret' = [op |-> "get_prompt_stats:usage",
             arg |-> [filename |-> filename, start |-> Len(events)],
             fault |-> "none", raised |-> FALSE,
             value |-> [empty_stats EXCEPT
                !.times_used = Cardinality(AppliedRows(events, filename)),
                !.last_used = MaxTimestamp(events, AppliedRows(events, filename))]]
  /\ UNCHANGED <<events, now, n_ok, config, pending_port_assignments>>

StatsProjectsPass ==
  /\ ret.op = "get_prompt_stats:usage"
  /\ ret' = [ret EXCEPT
        !.op = "get_prompt_stats:projects",
        !.value.projects =
           DistinctProjects(events, AppliedRows(events, ret.arg.filename), 1, <<>>)]
  /\ UNCHANGED <<events, now, n_ok, config, pending_port_assignments>>

StatsRatingPass ==
  /\ ret.op = "get_prompt_stats:projects"
  /\ LET rated == RatedRows(events, ret.arg.filename)
         sum == RatingSum(events, rated)
         cnt == Cardinality(rated)
         truthy == cnt > 0 /\ sum /= 0
     IN  ret' = IF MalformedIn(events, FeedbackRows(events, ret.arg.filename))
                THEN [ret EXCEPT !.op = "get_prompt_stats", !.value = empty_stats]
                ELSE [ret EXCEPT
                        !.op = "get_prompt_stats:rating",
                        !.value.avg_rating =
                           IF truthy THEN round_1(sum, cnt) ELSE None,
                        !.value.rating_count = IF truthy THEN cnt ELSE 0]
  /\ UNCHANGED <<events, now, n_ok, config, pending_port_assignments>>

StatsEditsPass ==
  /\ ret.op = "get_prompt_stats:rating"
  /\ ret' = [ret EXCEPT
        !.op = "get_prompt_stats",
        !.value.edit_count = Cardinality(EditedRows(events, ret.arg.filename))]
  /\ UNCHANGED <<events, now, n_ok, config, pending_port_assignments>>

\* log_event on another thread (or in another process) while a query is in
\* progress on this one.
AppendMeanwhile(call, cap) ==
  /\ Len(events) < cap
  /\ events' = log_event(events, now, call, "none").events
  /\ n_ok' = n_ok + 1
  /\ UNCHANGED <<now, ret, config, pending_port_assignments>>

\* _build_menu, the feedback section: the pending items are put on the menu
\* (an exception leaves the section out).
BuildMenu ==
  /\ \E r \in get_pending_feedback(events, now, "none") :
        ret' = Returned("_build_menu", NULL, "none", r)
  /\ UNCHANGED <<events, now, n_ok, config, pending_port_assignments>>

\* The log_event call of _submit_feedback for a menu item and a rating.
SubmitCall(item, rating) ==
  IF rating = 0
  THEN [event |-> "feedback_skipped", prompt_filename |-> item.prompt_filename,
        project_path |-> item.project_path, kwargs |-> NoKwargs]
  ELSE [event |-> "feedback_given", prompt_filename |-> item.prompt_filename,
        project_path |-> item.project_path,
        kwargs |-> Kwargs(rating, item.project_name, FALSE)]

\* Variant: Skip is logged as a rating of 0.
SubmitFeedback_mut_no_skip(a, rating, fault, cap) ==
  /\ ret.op \in {"_build_menu", "_submit_feedback"}
  /\ a \in DOMAIN ret.value
  /\ Len(events) < cap
  /\ LET item == ret.value[a]
         call == [event |-> "feedback_given",
                  prompt_filename |-> item.prompt_filename,
                  project_path |-> item.project_path,
                  kwargs |-> Kwargs(rating, item.project_name, FALSE)]
         r == log_event(events, now, call, fault)
     IN  /\ events' = r.events
         /\ \E m \in get_pending_feedback(r.events, now, "none") :
               ret' = [op |-> "_submit_feedback",
                       arg |-> [prompt_filename |-> item.prompt_filename,
                                project_path |-> item.project_path,
                                rating |-> rating],
                       fault |-> fault, raised |-> r.raised, value |-> m.value]
  /\ n_ok' = IF fault = "none" THEN n_ok + 1 ELSE n_ok
  /\ UNCHANGED <<now, config, pending_port_assignments>>

\* _submit_feedback, the callback of the rating entries of a menu item: one
\* log_event call, then the menu is rebuilt.
SubmitFeedback(a, rating, fault, cap) ==
  /\ ret.op \in {"_build_menu", "_submit_feedback"}
  /\ a \in DOMAIN ret.value
  /\ Len(events) < cap
  /\ LET item == ret.value[a]
         r == log_event(events, now, SubmitCall(item, rating), fault)
     IN  /\ events' = r.events
         /\ \E m \in get_pending_feedback(r.events, now, "none") :
               ret' = [op |-> "_submit_feedback",
                       arg |-> [prompt_filename |-> item.prompt_filename,
                                project_path |-> item.project_path,
                                rating |-> rating],
                       fault |-> fault, raised |-> r.raised, value |-> m.value]
  /\ n_ok' = IF fault = "none" THEN n_ok + 1 ELSE n_ok
  /\ UNCHANGED <<now, config, pending_port_assignments>>

\* ------------------------------------------------ _generate_with_fallback
\* _MODELS
Models == <<"gemini-2.5-flash", "gemini-2.0-flash">>

\* What str(exc) of an exception of generate_content reads, by its words.
ApiErrors ==
  {<<"429", "RESOURCE_EXHAUSTED">>, <<"RESOURCE_EXHAUSTED">>,
   <<"HTTP", "429">>, <<"400", "INVALID_ARGUMENT", "tokens", "104297">>,
   <<"403", "PERMISSION_DENIED">>, <<"503", "UNAVAILABLE">>}

\* "429" in exc_str or "RESOURCE_EXHAUSTED" in exc_str: a test on the text,
\* which the digits 429 inside a longer number also pass.
IsRateLimit(exc) ==
  \E k \in DOMAIN exc : exc[k] \in {"429", "104297", "RESOURCE_EXHAUSTED"}

\* response.text of a response: a text, the empty text or None.
ResponseTexts == {"analysis", "", NULL}

ApiOutcomes ==
  {[kind |-> "response", text |-> t, exc |-> <<>>] : t \in ResponseTexts}
    \cup {[kind |-> "exception", text |-> NULL, exc |-> e] : e \in ApiErrors}

\* What the function gives its caller: a text it returns or an exception it
\* raises; last_error is the error quoted in the text.
Outcome(text, last_error) == [text |-> text, last_error |-> last_error]

\* response.text or "(No response from Gemini)"
TextOrPlaceholder(text) ==
  Outcome(IF text = NULL \/ text = "" THEN "(No response from Gemini)" ELSE text,
          <<>>)

\* The message returned when every model was rate-limited.
RateLimitMessage(last_error) ==
  Outcome("Gemini API rate limit reached", last_error)

\* The exception that leaves the function.
Raised(exc) == Outcome("", exc)

\* analyze_prompt(filename) and analyze_overview call _generate_with_fallback
\* with their message; ret holds the call in progress: the index of the model
\* the loop is at and the calls made so far.
GenerateStart(caller) ==
  /\ ret.op /= "_generate_with_fallback:loop"
  /\ ret' = [op |-> "_generate_with_fallback:loop",
             arg |-> [caller |-> caller, next |-> 1, calls |-> <<>>],
             fault |-> "none", raised |-> FALSE, value |-> Outcome("", <<>>)]
  /\ UNCHANGED <<events, now, n_ok, config, pending_port_assignments>>

\* Variant: any exception moves on to the next model.
TryModel_mut_any_error(outcome) ==
  /\ ret.op = "_generate_with_fallback:loop"
  /\ LET calls == Append(ret.arg.calls,
                         [model |-> Models[ret.arg.next], outcome |-> outcome])
         done(raised, value) ==
            [op |-> "_generate_with_fallback",
             arg |-> [ret.arg EXCEPT !.calls = calls],
             fault |-> "none", raised |-> raised, value |-> value]
     IN  ret' =
           IF outcome.kind = "response"
           THEN done(FALSE, TextOrPlaceholder(outcome.text))
           ELSE IF ret.arg.next < Len(Models)
                THEN [ret EXCEPT !.arg.next = ret.arg.next + 1,
                                 !.arg.calls = calls]
                ELSE done(FALSE, RateLimitMessage(outcome.exc))
  /\ UNCHANGED <<events, now, n_ok, config, pending_port_assignments>>

\* One pass of the loop `for model in _MODELS`: the generate_content call
\* with its outcome, then return, continue or raise.
TryModel(outcome) ==
  /\ ret.op = "_generate_with_fallback:loop"
  /\ LET calls == Append(ret.arg.calls,
                         [model |-> Models[ret.arg.next], outcome |-> outcome])
         done(raised, value) ==
            [op |-> "_generate_with_fallback",
             arg |-> [ret.arg EXCEPT !.calls = calls],
             fault |-> "none", raised |-> raised, value |-> value]
     IN  ret' =
           IF outcome.kind = "response"
           THEN done(FALSE, TextOrPlaceholder(outcome.text))
           ELSE IF IsRateLimit(outcome.exc)
                THEN IF ret.arg.next < Len(Models)
                     THEN [ret EXCEPT !.arg.next = ret.arg.next + 1,
                                      !.arg.calls = calls]
                     ELSE done(FALSE, RateLimitMessage(outcome.exc))
                ELSE done(TRUE, Raised(outcome.exc))
  /\ UNCHANGED <<events, now, n_ok, config, pending_port_assignments>>

\* The dashboard: compute_prompt_health(s) on the stats a query returned.
ClassifyStats ==
  /\ ret.op = "get_prompt_stats"
  /\ ret' = [ret EXCEPT !.op = "compute_prompt_health",
                        !.arg = ret.value,
                        !.value = compute_prompt_health(ret.value)]
  /\ UNCHANGED <<events, now, n_ok, config, pending_port_assignments>>

\* compute_prompt_health applied to the stats a caller holds.
ComputePromptHealth ==
  /\ ret.op = "stats_in_hand"
  /\ ret' = [ret EXCEPT !.op = "compute_prompt_health",
                        !.value = compute_prompt_health(ret.arg)]
  /\ UNCHANGED <<events, now, n_ok, config, pending_port_assignments>>

\* ------------------------------------------------- the project registry
\* Each call loads config.json, changes it and saves it.
AddProject(name, path, repo) ==
  /\ config' = add_project(config, name, path, repo, now)
  /\ ret' = [op |-> "add_project", arg |-> [name |-> name, path |-> path],
             fault |-> "none", raised |-> FALSE, value |-> NULL]
  /\ UNCHANGED <<events, now, n_ok, pending_port_assignments>>

RemoveProject(path) ==
  /\ config' = remove_project(config, path)
  /\ ret' = [op |-> "remove_project", arg |-> [path |-> path],
             fault |-> "none", raised |-> FALSE, value |-> NULL]
  /\ UNCHANGED <<events, now, n_ok, pending_port_assignments>>

ArchiveProject(path) ==
  /\ config' = archive_project(config, path)
  /\ ret' = [op |-> "archive_project", arg |-> [path |-> path],
             fault |-> "none", raised |-> FALSE, value |-> NULL]
  /\ UNCHANGED <<events, now, n_ok, pending_port_assignments>>

UnarchiveProject(path) ==
  /\ config' = unarchive_project(config, path)
  /\ ret' = [op |-> "unarchive_project", arg |-> [path |-> path],
             fault |-> "none", raised |-> FALSE, value |-> NULL]
  /\ UNCHANGED <<events, now, n_ok, pending_port_assignments>>

DeleteProject(path) ==
  /\ config' = delete_project(config, path)
  /\ ret' = [op |-> "delete_project", arg |-> [path |-> path],
             fault |-> "none", raised |-> FALSE, value |-> NULL]
  /\ UNCHANGED <<events, now, n_ok, pending_port_assignments>>

\* The creation window allocates the ports of the prompt's port variables and
\* keeps them in _pending_port_assignments until the project is registered.
AllocatePorts(port_var_names, cap) ==
  /\ Cardinality(get_all_allocated_ports(config)) < cap
  /\ pending_port_assignments' = allocate_ports(config, port_var_names)
  /\ ret' = [op |-> "allocate_ports", arg |-> [names |-> port_var_names],
             fault |-> "none", raised |-> FALSE, value |-> NULL]
  /\ UNCHANGED <<events, now, n_ok, config>>

\* _finish_creation stores the pending ports (merge=True) and clears them.
SetProjectPorts(path) ==
  /\ pending_port_assignments /= NoPorts
  /\ config' = set_project_ports(config, path, pending_port_assignments, TRUE)
  /\ pending_port_assignments' = NoPorts
  /\ ret' = [op |-> "set_project_ports",
             arg |-> [path |-> path, ports |-> pending_port_assignments],
             fault |-> "none", raised |-> FALSE, value |-> NULL]
  /\ UNCHANGED <<events, now, n_ok>>

\* ------------------------------------------- the event log under faults
\* What the application logs in this specification.
LogCalls ==
  {ApplyPrompt(p, "/proj/a") : p \in Prompts}
  \cup {FeedbackGiven("p.md", "/proj/a", MaxRating), PromptEdited("p.md")}

QueryNames == Prompts \cup {UnknownPrompt}

Next ==
  \/ \E call \in LogCalls, fault \in LogFaults : LogEvent(call, fault, MaxEvents)
  \/ Tick(MaxLogClock)
  \/ \E fn \in QueryNames, fault \in ReadFaults : GetPromptStats(fn, fault)
  \/ \E fault \in ReadFaults : GetAllPromptStats(fault)
  \/ \E fault \in ReadFaults : GetOverallStats(fault)
  \/ \E fault \in ReadFaults : GetRecentActivity(PendingLimit, fault)
  \/ \E fault \in ReadFaults : GetPendingFeedback(fault)

Spec == Init /\ [][Next]_vars

\* ------------------------------------------------------ claims C1 .. C4
ReadOps ==
  {"get_prompt_stats", "get_all_prompt_stats", "get_overall_stats",
   "get_recent_activity", "get_pending_feedback"}

\* C1: append-only log.  After N log_event calls the storage did not fail
\* the log holds exactly N events (n_ok counts them), it never shrinks, and
\* every event already in it keeps all its fields in every later step, reads
\* included.
C1_AppendOnly ==
  /\ Len(events) = n_ok
  /\ [][/\ Len(events') = n_ok'
        /\ Len(events') >= Len(events)
        /\ \A i \in DOMAIN events : events'[i] = events[i]]_vars

C1_Witness ==
  /\ n_ok >= 2
  /\ Len(events) = n_ok
  /\ events[1].timestamp < events[2].timestamp
  /\ events[1].event = events[2].event
  /\ events[1].prompt_filename = events[2].prompt_filename
  /\ ret.op = "get_recent_activity"

\* C2: log_event never raises; when the storage fails at opening, creating
\* the table, inserting or committing, the call returns normally and the
\* events visible afterwards are exactly those visible before.
C2_LogEventNeverRaises ==
  [][ret'.op = "log_event" =>
       /\ ~ret'.raised
       /\ (ret'.fault /= "none" => events' = events)]_vars

C2_Witness ==
  /\ ret.op = "log_event"
  /\ ret.fault = "commit"
  /\ ~ret.raised
  /\ Len(events) >= 1

\* The documented default of each read operation.
ReadDefault(op) ==
  CASE op = "get_prompt_stats" -> empty_stats
    [] op = "get_all_prompt_stats" -> <<>>
    [] op = "get_overall_stats" ->
         [total_projects_created |-> 0, total_prompts_used |-> 0,
          total_prompt_applications |-> 0, most_used_prompt |-> NULL,
          avg_rating_all |-> None, events_last_30_days |-> 0]
    [] OTHER -> <<>>

\* C3: read totality.  A read that meets a storage failure does not raise,
\* returns its documented default and leaves the log unchanged.
C3_ReadTotality ==
  [][(ret'.op \in ReadOps /\ ret'.fault /= "none") =>
       /\ ~ret'.raised
       /\ ret'.value = ReadDefault(ret'.op)
       /\ events' = events]_vars

C3_Witness ==
  /\ ret.op = "get_overall_stats"
  /\ ret.fault = "query"
  /\ ~ret.raised
  /\ \E i \in DOMAIN events : events[i].event = "prompt_applied"

\* C4: stats totality.  get_prompt_stats of a prompt with no event in the
\* log returns the zero stats, whatever events other prompts have.
C4_StatsTotality ==
  (ret.op = "get_prompt_stats"
   /\ \A i \in DOMAIN events : events[i].prompt_filename /= ret.arg)
  => /\ ~ret.raised
     /\ ret.value = [times_used |-> 0, last_used |-> None, avg_rating |-> None,
                     rating_count |-> 0, edit_count |-> 0, projects |-> <<>>]

C4_Witness ==
  /\ ret.op = "get_prompt_stats"
  /\ ret.arg = "q.md"
  /\ ret.fault = "none"
  /\ \A i \in DOMAIN events : events[i].prompt_filename = "p.md"
  /\ \E i \in DOMAIN events : events[i].event = "prompt_applied"
  /\ \E i \in DOMAIN events : events[i].event = "feedback_given"
  /\ \E i \in DOMAIN events : events[i].event = "prompt_edited"

\* ------------------------------------------------- ratings: C5 and C6
\* The application rates two prompts and edits one of them.
RatingCalls ==
  {FeedbackGiven("p.md", "/proj/a", r) : r \in Ratings}
  \cup {FeedbackGiven("q.md", "/proj/a", MaxRating), PromptEdited("q.md")}

NextRatings ==
  \/ \E call \in RatingCalls : LogEvent(call, "none", MaxRatingEvents)
  \/ \E fn \in QueryNames : GetPromptStats(fn, "none")
  \/ GetAllPromptStats("none")
  \/ GetOverallStats("none")

SpecRatings == Init /\ [][NextRatings]_vars

\* The ratings a prompt's feedback_given events carry, read off the log.
RatingsOf(fn) ==
  {i \in DOMAIN events : /\ events[i].event = "feedback_given"
                         /\ events[i].prompt_filename = fn
                         /\ ~events[i].meta.null
                         /\ events[i].meta.rating \in Ratings}

AllRatings ==
  {i \in DOMAIN events : /\ events[i].event = "feedback_given"
                         /\ ~events[i].meta.null
                         /\ events[i].meta.rating \in Ratings}

SumOfRatings(rows) == SumOver([i \in rows |-> events[i].meta.rating], rows)

\* The mean sum / cnt rounded to one decimal place, a half step rounded up,
\* in hundredths.
MeanHalfUp(sum, cnt) == 10 * ((20 * sum + cnt) \div (2 * cnt))

StatsMatchHalfUp(stats, fn) ==
  LET rows == RatingsOf(fn)
  IN  /\ stats.rating_count = Cardinality(rows)
      /\ rows /= {} =>
           stats.avg_rating = MeanHalfUp(SumOfRatings(rows), Cardinality(rows))

\* C5: average-rating correctness as claimed.  rating_count is the number of
\* ratings and avg_rating their mean rounded to one decimal place with a half
\* step rounded up ([4,4,3,2] gives 3.3), from get_prompt_stats and from
\* get_all_prompt_stats.
C5_AverageHalfUp ==
  /\ ret.op = "get_prompt_stats" => StatsMatchHalfUp(ret.value, ret.arg)
  /\ ret.op = "get_all_prompt_stats" =>
       \A fn \in DOMAIN ret.value : StatsMatchHalfUp(ret.value[fn], fn)
  /\ (/\ ret.op = "get_prompt_stats"
      /\ ret.arg = "p.md"
      /\ Len(events) = 4
      /\ \A i \in 1..4 : events[i].prompt_filename = "p.md"
      /\ <<events[1].meta.rating, events[2].meta.rating,
           events[3].meta.rating, events[4].meta.rating>> = <<4, 4, 3, 2>>)
     => (ret.value.avg_rating = 330 /\ ret.value.rating_count = 4)


NullIffUnrated(avg, rows) ==
  /\ avg = None <=> rows = {}
  /\ rows /= {} => (avg >= 100 * MinRating /\ avg <= 100 * MaxRating)

\* C6: no rating is never conflated with rating 0.  In the stats of
\* get_prompt_stats and get_all_prompt_stats the average is null exactly when
\* rating_count is 0, rating_count is the number of the prompt's feedback_given
\* events that carry a rating, and an average that is present lies in
\* 1.0 .. 4.0; the overall average is null exactly when no event is rated.
C6_NullIffNoRating ==
  /\ ret.op = "get_prompt_stats" =>
       /\ ret.value.rating_count = Cardinality(RatingsOf(ret.arg))
       /\ ret.value.avg_rating = None <=> ret.value.rating_count = 0
       /\ NullIffUnrated(ret.value.avg_rating, RatingsOf(ret.arg))
  /\ ret.op = "get_all_prompt_stats" =>
       \A fn \in DOMAIN ret.value :
          /\ ret.value[fn].rating_count = Cardinality(RatingsOf(fn))
          /\ ret.value[fn].avg_rating = None <=> ret.value[fn].rating_count = 0
          /\ NullIffUnrated(ret.value[fn].avg_rating, RatingsOf(fn))
  /\ ret.op = "get_overall_stats" =>
       NullIffUnrated(ret.value.avg_rating_all, AllRatings)

C6_Witness ==
  /\ ret.op = "get_all_prompt_stats"
  /\ DOMAIN ret.value = {"p.md", "q.md"}
  /\ ret.value["p.md"].rating_count = 2
  /\ ret.value["p.md"].avg_rating = 150
  /\ ret.value["q.md"].rating_count = 0
  /\ ret.value["q.md"].avg_rating = None

\* ------------------------------------------- the classifier: C7 .. C9
HealthLabels == {"great", "good", "needs_attention", "unused", "new"}

\* The stats a caller may hold: any usage, any average in 1.00 .. 4.00 or
\* none, any edit count, rated or not.
HealthInputs ==
  {Stats(u, None, a, c, e, <<>>) :
     u \in 0..MaxUsed, a \in {None} \cup (100 * MinRating)..(100 * MaxRating),
     c \in 0..1, e \in 0..MaxEdits}

InitHealth ==
  /\ events = <<>>
  /\ now = 0
  /\ n_ok = 0
  /\ ret \in {[op |-> "stats_in_hand", arg |-> s, fault |-> "none",
               raised |-> FALSE, value |-> NULL] : s \in HealthInputs}
  /\ config = DEFAULT_CONFIG
  /\ pending_port_assignments = NoPorts

NextHealth == ComputePromptHealth

SpecHealth == InitHealth /\ [][NextHealth]_vars

\* C7: health thresholds.  For a used prompt with an average rating the label
\* is great iff the average is at least 3.5, good iff it is at least 2.5 and
\* below 3.5, needs_attention iff it is below 2.5, whatever the edit count.
C7_HealthThresholds ==
  (ret.op = "compute_prompt_health" /\ ret.arg.times_used > 0
   /\ ret.arg.avg_rating /= None)
  => /\ ret.value = "great" <=> ret.arg.avg_rating >= 350
     /\ ret.value = "good" <=> (ret.arg.avg_rating >= 250 /\ ret.arg.avg_rating < 350)
     /\ ret.value = "needs_attention" <=> ret.arg.avg_rating < 250

C7_Witness ==
  /\ ret.op = "compute_prompt_health"
  /\ ret.arg.times_used = 3
  /\ ret.arg.edit_count = 7
  /\ ret.arg.avg_rating = 350
  /\ ret.value = "great"

\* C8: unused and new come first.  With times_used = 0 the label is unused
\* when edit_count > 0 and new when it is 0, whatever the ratings; and every
\* input gets one of the five labels.
C8_UnusedVsNew ==
  ret.op = "compute_prompt_health" =>
    /\ ret.value \in HealthLabels
    /\ ret.arg.times_used = 0 =>
         ret.value = (IF ret.arg.edit_count > 0 THEN "unused" ELSE "new")

C8_Witness ==
  /\ ret.op = "compute_prompt_health"
  /\ ret.arg.times_used = 0
  /\ ret.arg.edit_count = 3
  /\ ret.arg.avg_rating = 400
  /\ ret.arg.rating_count = 1
  /\ ret.value = "unused"

\* C9: the rework signal.  For a used prompt with no average the label is
\* needs_attention iff edit_count > 2 * times_used, and good otherwise.
C9_ReworkSignal ==
  (ret.op = "compute_prompt_health" /\ ret.arg.times_used > 0
   /\ ret.arg.avg_rating = None)
  => ret.value = (IF ret.arg.edit_count > 2 * ret.arg.times_used
                  THEN "needs_attention" ELSE "good")

C9_Witness ==
  /\ ret.op = "compute_prompt_health"
  /\ ret.arg.times_used = 2
  /\ ret.arg.edit_count = 4
  /\ ret.arg.avg_rating = None
  /\ ret.value = "good"

\* ------------------------------------------------ pending feedback: C10
\* One prompt is applied to two projects, and each application is rated or
\* skipped from the menu.
FeedbackCalls ==
  {ApplyPrompt("p.md", j) : j \in Projects}
  \cup {FeedbackSkipped("p.md", j) : j \in Projects}
  \cup {FeedbackGiven("p.md", j, MaxRating) : j \in Projects}

NextFeedback ==
  \/ \E call \in FeedbackCalls : LogEvent(call, "none", MaxFeedbackEvents)
  \/ Tick(MaxClock)
  \/ GetPendingFeedback("none")

SpecFeedback == Init /\ [][NextFeedback]_vars

\* A feedback_given or feedback_skipped event for the pair is in the log.
Resolved(p, j) ==
  \E f \in DOMAIN events :
     /\ events[f].event \in {"feedback_given", "feedback_skipped"}
     /\ events[f].prompt_filename = p
     /\ events[f].project_path = j

\* The applications older than the age cutoff of one hour whose pair no
\* feedback event resolves.
OldUnresolved ==
  {i \in DOMAIN events :
     /\ events[i].event = "prompt_applied"
     /\ events[i].timestamp < now - 2
     /\ ~Resolved(events[i].prompt_filename, events[i].project_path)}

\* The application is one of the entries of the result.
Listed(i) ==
  \E a \in DOMAIN ret.value :
     /\ ret.value[a].prompt_filename = events[i].prompt_filename
     /\ ret.value[a].project_path = events[i].project_path
     /\ ret.value[a].created_at = events[i].timestamp

NoResolvedListed ==
  \A a \in DOMAIN ret.value :
     ~Resolved(ret.value[a].prompt_filename, ret.value[a].project_path)

\* C10 as claimed: every old enough application of an unresolved pair is in
\* the result of get_pending_feedback, no application of a resolved pair is,
\* and the resolution of one pair leaves the applications of another in.
C10_PendingAsClaimed ==
  ret.op = "get_pending_feedback" =>
    /\ \A i \in OldUnresolved : Listed(i)
    /\ NoResolvedListed

\* C10 amended: the same, for the applications within the limit of 3: an old
\* enough application of an unresolved pair is in the result when fewer than
\* 3 other such applications are as new as it or newer.
C10_PendingExclusion ==
  ret.op = "get_pending_feedback" =>
    /\ \A i \in OldUnresolved :
         Cardinality({j \in OldUnresolved \ {i} :
                        events[j].timestamp >= events[i].timestamp}) < 3
         => Listed(i)
    /\ NoResolvedListed

C10_Witness ==
  /\ ret.op = "get_pending_feedback"
  /\ \E i, j, k \in DOMAIN events :
        /\ events[i].event = "prompt_applied"
        /\ events[i].project_path = "/proj/a"
        /\ events[i].timestamp < now - 2
        /\ events[j].event = "prompt_applied"
        /\ events[j].project_path = "/proj/b"
        /\ events[j].timestamp < now - 2
        /\ events[k].event = "feedback_skipped"
        /\ events[k].project_path = "/proj/a"
  /\ ~Resolved("p.md", "/proj/b")
  /\ Len(ret.value) = 1
  /\ ret.value[1].project_path = "/proj/b"

\* --------------------------------------------------- age cutoff: C11
\* The unresolved applications, of any age.
Unresolved ==
  {i \in DOMAIN events :
     /\ events[i].event = "prompt_applied"
     /\ ~Resolved(events[i].prompt_filename, events[i].project_path)}

\* C11 as claimed: an unresolved application newer than now minus 1 hour is
\* never in the result of get_pending_feedback and one older than that always
\* is, so that it enters the result when its age crosses the hour and stays.
C11_AgeCutoffAsClaimed ==
  ret.op = "get_pending_feedback" =>
    \A i \in Unresolved :
       /\ events[i].timestamp > now - 2 => ~Listed(i)
       /\ events[i].timestamp < now - 2 => Listed(i)

\* C11 amended: an unresolved application newer than now minus 1 hour is never
\* in the result; one older than that is in it when fewer than 3 other old
\* unresolved applications are as new as it or newer; and the clock only
\* advances, so an application that is old enough stays old enough.
C11_AgeCutoff ==
  /\ [](ret.op = "get_pending_feedback" =>
         \A i \in Unresolved :
            /\ events[i].timestamp > now - 2 => ~Listed(i)
            /\ (/\ events[i].timestamp < now - 2
                /\ Cardinality({j \in OldUnresolved \ {i} :
                      events[j].timestamp >= events[i].timestamp}) < 3)
               => Listed(i))
  /\ [][now' >= now /\ (events' = events => OldUnresolved \subseteq OldUnresolved')]_vars

\* An application 30 minutes old is held back while one 90 minutes old is
\* listed.
C11_Witness ==
  /\ ret.op = "get_pending_feedback"
  /\ Len(events) = 2
  /\ events[1].event = "prompt_applied"
  /\ events[2].event = "prompt_applied"
  /\ events[1].timestamp = now - 3
  /\ events[2].timestamp = now - 1
  /\ Len(ret.value) = 1
  /\ ret.value[1].created_at = events[1].timestamp

\* ------------------------------------------ resolution is permanent: C12
\* C12: once a feedback_given or feedback_skipped event for a pair is in the
\* log the pair stays resolved, and no application of it is in any result of
\* get_pending_feedback, whether the application was appended before or after
\* the feedback event and whatever their timestamps.
C12_ResolutionPermanent ==
  /\ [](ret.op = "get_pending_feedback" =>
         \A i \in DOMAIN events :
            (/\ events[i].event = "prompt_applied"
             /\ \E f \in DOMAIN events :
                   /\ events[f].event \in {"feedback_given", "feedback_skipped"}
                   /\ events[f].prompt_filename = events[i].prompt_filename
                   /\ events[f].project_path = events[i].project_path)
            => ~Listed(i))
  /\ [][\A j \in Projects : Resolved("p.md", j) => Resolved("p.md", j)']_vars

\* The prompt was applied to a project again after its feedback, the second
\* application is old enough and unanswered, and it is not listed.
C12_Witness ==
  /\ ret.op = "get_pending_feedback"
  /\ Len(events) = 3
  /\ events[1].event = "prompt_applied"
  /\ events[2].event = "feedback_given"
  /\ events[3].event = "prompt_applied"
  /\ events[1].project_path = "/proj/a"
  /\ events[2].project_path = "/proj/a"
  /\ events[3].project_path = "/proj/a"
  /\ events[2].timestamp <= events[3].timestamp
  /\ events[3].timestamp < now - 2
  /\ ret.value = <<>>

\* ------------------------------------------- askable until resolved: C13
MaxAskEvents == 4
MaxAskClock == 4

\* Applications of one prompt to two projects and the menu's Skip for one
\* of the pairs.
AskCalls ==
  {ApplyPrompt("p.md", j) : j \in Projects}
    \cup {FeedbackSkipped("p.md", "/proj/a")}

NextAskable ==
  \/ \E call \in AskCalls : LogEvent(call, "none", MaxAskEvents)
  \/ Tick(MaxAskClock)
  \/ GetPendingFeedback("none")

SpecAskable == Init /\ [][NextAskable]_vars

\* The applications that are in the result of a get_pending_feedback call
\* made in this state, whichever of the possible results the call returns.
InEveryResult ==
  LET results == get_pending_feedback(events, now, "none")
  IN  {i \in DOMAIN events :
         \A r \in results :
            \E a \in DOMAIN r.value :
               /\ r.value[a].prompt_filename = events[i].prompt_filename
               /\ r.value[a].project_path = events[i].project_path
               /\ r.value[a].created_at = events[i].timestamp}

MaxOrderEvents == 4
MaxOrderClock == 4

OrderCalls == {ApplyPrompt("p.md", "/proj/a")}

NextOrder ==
  \/ \E call \in OrderCalls : LogEvent(call, "none", MaxOrderEvents)
  \/ Tick(MaxOrderClock)
  \/ ClockBack(0)
  \/ GetPendingFeedback("none")

SpecOrder == Init /\ [][NextOrder]_vars

\* The eligible applications: both references present, older than an hour,
\* no feedback event for the pair.
Eligible ==
  {i \in DOMAIN events :
     /\ events[i].event = "prompt_applied"
     /\ events[i].prompt_filename /= NULL
     /\ events[i].project_path /= NULL
     /\ events[i].timestamp < now - 2
     /\ ~Resolved(events[i].prompt_filename, events[i].project_path)}

EligibleAt(t) == {i \in Eligible : events[i].timestamp = t}
EligibleAfter(t) == {i \in Eligible : events[i].timestamp > t}

\* How many of the 3 places are left for the applications stamped t.
PlacesAt(t) ==
  IF Cardinality(EligibleAfter(t)) >= 3 THEN 0
  ELSE Min2(Cardinality(EligibleAt(t)), 3 - Cardinality(EligibleAfter(t)))

\* C14: the result of get_pending_feedback has at most 3 entries, min(3, k)
\* of them for k eligible applications, in non-increasing created_at order;
\* they are the newest eligible applications by timestamp; every entry has
\* both references and a created_at older than the cutoff.
C14_OrderingAndCap ==
  ret.op = "get_pending_feedback" =>
    /\ Len(ret.value) <= 3
    /\ Len(ret.value) = Min2(3, Cardinality(Eligible))
    /\ \A a, b \in DOMAIN ret.value :
          a < b => ret.value[a].created_at >= ret.value[b].created_at
    /\ \A t \in 0..now :
          Cardinality({a \in DOMAIN ret.value : ret.value[a].created_at = t})
            = PlacesAt(t)
    /\ \A a \in DOMAIN ret.value :
          /\ ret.value[a].prompt_filename /= NULL
          /\ ret.value[a].project_path /= NULL
          /\ ret.value[a].created_at < now - 2
          /\ \E i \in Eligible :
                /\ events[i].prompt_filename = ret.value[a].prompt_filename
                /\ events[i].project_path = ret.value[a].project_path
                /\ events[i].timestamp = ret.value[a].created_at

\* Four eligible applications, the first appended one carrying the newest
\* timestamp (the clock was set back after it): it heads the 3 entries.
C14_Witness ==
  /\ ret.op = "get_pending_feedback"
  /\ Len(events) = 4
  /\ Cardinality(Eligible) = 4
  /\ \A i \in 2..4 : events[1].timestamp > events[i].timestamp
  /\ Len(ret.value) = 3
  /\ ret.value[1].created_at = events[1].timestamp
  /\ ret.value[1].created_at > ret.value[2].created_at

\* ------------------------------- resolution by both references: C15
MaxPairEvents == 3

\* One application of p.md to /proj/a, the feedback for that very pair, and
\* feedback events that share only one reference with it or leave one null.
PairCalls ==
  {ApplyPrompt("p.md", "/proj/a"),
   FeedbackSkipped("p.md", "/proj/a"),
   FeedbackSkipped("p.md", "/proj/b"),
   FeedbackSkipped("q.md", "/proj/a"),
   FeedbackSkipped(NULL, "/proj/a"),
   FeedbackSeeded("p.md", MinRating)}

NextPairs ==
  \/ \E call \in PairCalls : LogEvent(call, "none", MaxPairEvents)
  \/ Tick(MaxClock)
  \/ GetPendingFeedback("none")

SpecPairs == Init /\ [][NextPairs]_vars

\* Some feedback event carries exactly the application's two references.
ExactFeedback(i) ==
  \E f \in DOMAIN events :
     /\ events[f].event \in {"feedback_given", "feedback_skipped"}
     /\ events[f].prompt_filename = events[i].prompt_filename
     /\ events[f].project_path = events[i].project_path

\* A feedback event that shares one reference with the application and
\* differs in the other or leaves it null.
NearMiss(i, f) ==
  /\ events[f].event \in {"feedback_given", "feedback_skipped"}
  /\ \/ /\ events[f].prompt_filename = events[i].prompt_filename
        /\ events[f].project_path /= events[i].project_path
     \/ /\ events[f].project_path = events[i].project_path
        /\ events[f].prompt_filename /= events[i].prompt_filename

\* C15: an application older than the hour is kept out of the result of
\* get_pending_feedback exactly by a feedback event whose prompt and project
\* both equal its own (3 or fewer candidates, within the LIMIT); feedback
\* events that differ in one reference, or leave one null, resolve nothing.
C15_BothReferences ==
  ret.op = "get_pending_feedback" =>
    \A i \in DOMAIN events :
       (/\ events[i].event = "prompt_applied"
        /\ events[i].timestamp < now - 2
        /\ Cardinality({j \in DOMAIN events :
                          events[j].event = "prompt_applied"}) <= 3)
       => (Listed(i) <=> ~ExactFeedback(i))

\* The application is old enough, the log holds a feedback event with its
\* prompt and no project and one with its project and another prompt, and the
\* application is listed.
C15_Witness ==
  /\ ret.op = "get_pending_feedback"
  /\ Len(events) = 3
  /\ events[1].event = "prompt_applied"
  /\ events[1].timestamp < now - 2
  /\ NearMiss(1, 2)
  /\ NearMiss(1, 3)
  /\ events[2].project_path = NULL
  /\ events[3].prompt_filename = "q.md"
  /\ Len(ret.value) = 1
  /\ Listed(1)

\* ------------------------------------------- batch equals single: C16
MaxBatchEvents == 3

\* p.md is applied to two projects, rated and edited; q.md is created and
\* applied.
BatchCalls ==
  {ApplyPrompt("p.md", j) : j \in Projects}
    \cup {FeedbackGiven("p.md", "/proj/a", r) : r \in {MaxRating - 1, MaxRating}}
    \cup {PromptEdited("p.md"), PromptCreated("q.md"),
          ApplyPrompt("q.md", "/proj/a")}

NextBatch ==
  \/ \E call \in BatchCalls : LogEvent(call, "none", MaxBatchEvents)
  \/ Tick(MaxLogClock)
  \/ GetAllPromptStats("none")
  \/ \E fn \in QueryNames : GetPromptStats(fn, "none")

SpecBatch == Init /\ [][NextBatch]_vars

\* What get_prompt_stats returns for the prompt on the log as it is.
Single(fn) == get_prompt_stats(events, fn, "none").value

SameStats(a, b) ==
  /\ a.times_used = b.times_used
  /\ a.last_used = b.last_used
  /\ a.avg_rating = b.avg_rating
  /\ a.rating_count = b.rating_count
  /\ a.edit_count = b.edit_count
  /\ Range(a.projects) = Range(b.projects)

\* Some event of the log carries the prompt.
HasEvent(fn) == \E i \in DOMAIN events : events[i].prompt_filename = fn

\* Some event the statistics count carries the prompt: an application, a
\* feedback_given with a rating, an edit.
HasCountedEvent(fn) ==
  \E i \in DOMAIN events :
     /\ events[i].prompt_filename = fn
     /\ \/ events[i].event \in {"prompt_applied", "prompt_edited"}
        \/ /\ events[i].event = "feedback_given"
           /\ ~events[i].meta.null
           /\ events[i].meta.rating /= NoKey

\* C16 as claimed: every prompt with at least one event has an entry in the
\* result of get_all_prompt_stats, equal to get_prompt_stats of it; an absent
\* prompt has the zero statistics.
C16_BatchAsClaimed ==
  ret.op = "get_all_prompt_stats" =>
    \A fn \in QueryNames :
       /\ HasEvent(fn) =>
             /\ fn \in DOMAIN ret.value
             /\ SameStats(ret.value[fn], Single(fn))
       /\ fn \notin DOMAIN ret.value => Single(fn) = empty_stats

\* C16 amended: the prompts with an entry in the result of
\* get_all_prompt_stats are those with an application, a rated feedback_given
\* or an edit; each entry equals get_prompt_stats of its prompt; an absent
\* prompt has the zero statistics.
C16_BatchEqualsSingle ==
  ret.op = "get_all_prompt_stats" =>
    \A fn \in QueryNames :
       /\ fn \in DOMAIN ret.value <=> HasCountedEvent(fn)
       /\ fn \in DOMAIN ret.value => SameStats(ret.value[fn], Single(fn))
       /\ fn \notin DOMAIN ret.value => Single(fn) = empty_stats

\* p.md has been applied, rated and edited: its entry carries all three.
C16_Witness ==
  /\ ret.op = "get_all_prompt_stats"
  /\ "p.md" \in DOMAIN ret.value
  /\ ret.value["p.md"].times_used = 1
  /\ ret.value["p.md"].rating_count = 1
  /\ ret.value["p.md"].edit_count = 1
  /\ Len(ret.value["p.md"].projects) = 1

\* ---------------------------------------------- most-used prompt: C17
MaxUsageEvents == 4

\* Applications of two prompts, and projects created with a prompt and
\* without one.
UsageCalls ==
  {ApplyPrompt("p.md", "/proj/a"), ApplyPrompt("q.md", "/proj/a"),
   ApplyPrompt("q.md", "/proj/b"),
   ProjectCreated("p.md", "/proj/a"), ProjectCreated(NULL, "/proj/b")}

NextUsage ==
  \/ \E call \in UsageCalls : LogEvent(call, "none", MaxUsageEvents)
  \/ GetOverallStats("none")

SpecUsage == Init /\ [][NextUsage]_vars

\* The number of prompt_applied events of the prompt.
CountApplied(fn) ==
  Cardinality({i \in DOMAIN events :
     events[i].event = "prompt_applied" /\ events[i].prompt_filename = fn})

\* C17: most_used_prompt of get_overall_stats is a prompt whose number of
\* prompt_applied events is the largest of all prompts (any of those that
\* share the largest count, the call not failing), and it is null exactly when
\* the log has no prompt_applied event with a prompt.
C17_MostUsed ==
  ret.op = "get_overall_stats" =>
    /\ ~ret.raised
    /\ ret.value.most_used_prompt = NULL
         <=> ~\E i \in DOMAIN events :
                /\ events[i].event = "prompt_applied"
                /\ events[i].prompt_filename /= NULL
    /\ ret.value.most_used_prompt /= NULL =>
         /\ ret.value.most_used_prompt \in Prompts
         /\ \A g \in Prompts :
               CountApplied(g) <= CountApplied(ret.value.most_used_prompt)

\* Two applications each: the call answers with q.md, though p.md was
\* applied first and was also used to create a project.
C17_Witness ==
  /\ ret.op = "get_overall_stats"
  /\ CountApplied("p.md") = 2
  /\ CountApplied("q.md") = 2
  /\ events[1].prompt_filename = "p.md"
  /\ ret.value.most_used_prompt = "q.md"

\* ------------------------------------------------ recent activity: C18
MaxActivityEvents == 3
MaxActivityClock == 2

ActivityCalls == {ApplyPrompt("p.md", "/proj/a"), PromptEdited("p.md")}

\* The limits the callers pass.
ActivityLimits == {0, 2}

NextActivity ==
  \/ \E call \in ActivityCalls : LogEvent(call, "none", MaxActivityEvents)
  \/ Tick(MaxActivityClock)
  \/ ClockBack(0)
  \/ \E limit \in ActivityLimits : GetRecentActivity(limit, "none")

SpecActivity == Init /\ [][NextActivity]_vars

EventsAt(t) == {i \in DOMAIN events : events[i].timestamp = t}
EventsAfter(t) == {i \in DOMAIN events : events[i].timestamp > t}

\* How many of the limit places are left for the events stamped t.
ActivityPlacesAt(limit, t) ==
  IF Cardinality(EventsAfter(t)) >= limit THEN 0
  ELSE Min2(Cardinality(EventsAt(t)), limit - Cardinality(EventsAfter(t)))

\* C18: get_recent_activity(limit) returns min(limit, N) of the N events of
\* the log, each once, in non-increasing timestamp order, and they are the
\* events with the largest timestamps, in whatever order they were appended.
C18_RecentByTimestamp ==
  ret.op = "get_recent_activity" =>
    /\ Len(ret.value) = Min2(ret.arg, Len(events))
    /\ \A a, b \in DOMAIN ret.value :
          a < b => ret.value[a].timestamp >= ret.value[b].timestamp
    /\ \A t \in 0..MaxOf({events[i].timestamp : i \in DOMAIN events} \cup {0}) :
          Cardinality({a \in DOMAIN ret.value : ret.value[a].timestamp = t})
            = ActivityPlacesAt(ret.arg, t)
    /\ \E s \in [DOMAIN ret.value -> DOMAIN events] :
          /\ \A a, b \in DOMAIN ret.value : a /= b => s[a] /= s[b]
          /\ \A a \in DOMAIN ret.value :
                /\ ret.value[a].timestamp = events[s[a]].timestamp
                /\ ret.value[a].event = events[s[a]].event
                /\ ret.value[a].prompt_filename = events[s[a]].prompt_filename
                /\ ret.value[a].project_path = events[s[a]].project_path

\* The first event appended carries the newest timestamp and the second the
\* oldest: with limit 2 the call returns the first and then the third.
C18_Witness ==
  /\ ret.op = "get_recent_activity"
  /\ ret.arg = 2
  /\ Len(events) = 3
  /\ events[1].timestamp > events[3].timestamp
  /\ events[3].timestamp > events[2].timestamp
  /\ Len(ret.value) = 2
  /\ ret.value[1].timestamp = events[1].timestamp
  /\ ret.value[2].timestamp = events[3].timestamp

\* ------------------------------------------------ the 30-day count: C19
MaxMonthEvents == 3
MaxMonthTicks == 2

MonthCalls == {ApplyPrompt("p.md", "/proj/a"), PromptEdited("p.md")}

\* Up to an hour of ticks, then one tick short of 30 days at a stretch; the
\* clock may step back an hour after that.
NextMonth ==
  \/ \E call \in MonthCalls : LogEvent(call, "none", MaxMonthEvents)
  \/ Tick(MaxMonthTicks)
  \/ Elapse(Days30 - 1, Days30 - 1 + MaxMonthTicks)
  \/ ClockBack(Days30 - 1)
  \/ GetOverallStats("none")

SpecMonth == Init /\ [][NextMonth]_vars

\* The events stamped after now minus 30 days and not after now.
WithinLast30Days ==
  {i \in DOMAIN events :
     events[i].timestamp > now - Days30 /\ events[i].timestamp <= now}

\* C19: events_last_30_days of get_overall_stats is the number of events, of
\* any kind, stamped after now minus 30 days and not after now.
C19_Last30Days ==
  ret.op = "get_overall_stats" =>
    ret.value.events_last_30_days = Cardinality(WithinLast30Days)

\* ------------------------------------------- malformed metadata: C20
MaxMalformedEvents == 3

MalformedCalls ==
  {ApplyPrompt("p.md", "/proj/a"), FeedbackGiven("p.md", "/proj/b", MaxRating)}

NextMalformed ==
  \/ \E call \in MalformedCalls : LogEvent(call, "none", MaxMalformedEvents)
  \/ ForeignInsert("prompt_applied", "p.md", "/proj/b", MaxMalformedEvents)
  \/ ForeignInsert("feedback_given", "q.md", "/proj/a", MaxMalformedEvents)
  \/ Tick(MaxClock)
  \/ \E fn \in Prompts : GetPromptStats(fn, "none")
  \/ GetAllPromptStats("none")
  \/ GetOverallStats("none")
  \/ GetRecentActivity(PendingLimit, "none")
  \/ GetPendingFeedback("none")

SpecMalformed == Init /\ [][NextMalformed]_vars

\* The log with every malformed meta replaced by a null meta.
Sanitized ==
  [i \in DOMAIN events |->
     IF events[i].meta.malformed
     THEN [events[i] EXCEPT !.meta = NullMeta] ELSE events[i]]

\* C20: with an event of unparseable metadata in the log, each of the five
\* queries returns what it returns on the log in which that event has null
\* metadata.
C20_MalformedIsolated ==
  /\ ret.op = "get_prompt_stats" =>
        ret.value = get_prompt_stats(Sanitized, ret.arg, "none").value
  /\ ret.op = "get_all_prompt_stats" =>
        ret.value = get_all_prompt_stats(Sanitized, "none").value
  /\ ret.op = "get_overall_stats" =>
        \E r \in get_overall_stats(Sanitized, now, "none") : ret.value = r.value
  /\ ret.op = "get_recent_activity" =>
        \E r \in get_recent_activity(Sanitized, ret.arg, "none") :
           ret.value = r.value
  /\ ret.op = "get_pending_feedback" =>
        \E r \in get_pending_feedback(Sanitized, now, "none") :
           ret.value = r.value

\* ------------------------------------------------ reads do not write: C21
MaxReadEvents == 3

ReadCalls ==
  {ApplyPrompt("p.md", "/proj/a"), FeedbackGiven("p.md", "/proj/a", MaxRating)}

NextReads ==
  \/ \E call \in ReadCalls : LogEvent(call, "none", MaxReadEvents)
  \/ Tick(MaxClock)
  \/ \E fn \in QueryNames : GetPromptStats(fn, "none")
  \/ GetAllPromptStats("none")
  \/ GetOverallStats("none")
  \/ GetRecentActivity(PendingLimit, "none")
  \/ GetPendingFeedback("none")
  \/ ClassifyStats

SpecReads == Init /\ [][NextReads]_vars

\* The values the query can return in this state (more than one only where
\* SQL leaves an order among equal timestamps or equal counts open).
Outcomes(op, arg) ==
  CASE op = "get_prompt_stats" -> {get_prompt_stats(events, arg, "none").value}
    [] op = "get_all_prompt_stats" -> {get_all_prompt_stats(events, "none").value}
    [] op = "get_overall_stats" ->
         {r.value : r \in get_overall_stats(events, now, "none")}
    [] op = "get_recent_activity" ->
         {r.value : r \in get_recent_activity(events, arg, "none")}
    [] op = "get_pending_feedback" ->
         {r.value : r \in get_pending_feedback(events, now, "none")}
    [] OTHER -> {}

MaxInterleaveEvents == 2

InterleaveCalls == {ApplyPrompt("p.md", "/proj/a"), PromptEdited("p.md")}

NextInterleave ==
  \/ \E call \in InterleaveCalls : AppendMeanwhile(call, MaxInterleaveEvents)
  \/ Tick(MaxLogClock)
  \/ \E fn \in Prompts : StatsUsagePass(fn)
  \/ StatsProjectsPass
  \/ StatsRatingPass
  \/ StatsEditsPass

SpecInterleave == Init /\ [][NextInterleave]_vars

\* C22: the value get_prompt_stats returns while another thread appends is
\* the value of the query on the log as it stood at one moment between the
\* start of the call and its return.
C22_ReadsAtomic ==
  ret.op = "get_prompt_stats" =>
    \E k \in ret.arg.start..Len(events) :
       ret.value = prompt_stats_query(SubSeq(events, 1, k), ret.arg.filename)

\* ------------------------------------- feedback submission protocol: C23
MaxMenuEvents == 4

MenuCalls == {ApplyPrompt("p.md", j) : j \in Projects}

\* The ratings of the menu entries: 4, 3, 2, 1 and 0 for Skip.
MenuRatings == 0..MaxRating

\* The storage works or the INSERT fails.
MenuFaults == {"none", "insert"}

NextMenu ==
  \/ \E call \in MenuCalls : LogEvent(call, "none", MaxMenuEvents)
  \/ Tick(MaxClock)
  \/ BuildMenu
  \/ \E a \in 1..PendingLimit, rating \in MenuRatings, fault \in MenuFaults :
        SubmitFeedback(a, rating, fault, MaxMenuEvents)

SpecMenu == Init /\ [][NextMenu]_vars

\* The step appended the event _submit_feedback is to log for the item.
SubmissionLogged ==
  /\ Len(events') = Len(events) + 1
  /\ LET e == events'[Len(events')]
     IN  /\ e.prompt_filename = ret'.arg.prompt_filename
         /\ e.project_path = ret'.arg.project_path
         /\ IF ret'.arg.rating = 0
            THEN e.event = "feedback_skipped"
            ELSE /\ e.event = "feedback_given"
                 /\ json_extract_rating(e.meta) = ret'.arg.rating

\* The pair of the submitted item is not on the rebuilt menu.
NotOfferedAgain ==
  \A b \in DOMAIN ret'.value :
     ~(/\ ret'.value[b].prompt_filename = ret'.arg.prompt_filename
       /\ ret'.value[b].project_path = ret'.arg.project_path)

\* Every feedback_given event of the log has a rating in 1..4.
RatingsInDomain ==
  \A i \in DOMAIN events :
     events[i].event = "feedback_given" =>
        json_extract_rating(events[i].meta) \in MinRating..MaxRating

Callers == {"analyze_prompt p.md", "analyze_prompt q.md", "analyze_overview"}

NextFallback ==
  \/ \E caller \in Callers : GenerateStart(caller)
  \/ \E outcome \in ApiOutcomes : TryModel(outcome)

\* Every generate_content call returns or raises, so a call in progress
\* takes its next step.
SpecFallback ==
  /\ Init
  /\ [][NextFallback]_vars
  /\ WF_vars(\E outcome \in ApiOutcomes : TryModel(outcome))

InFallback == ret.op \in {"_generate_with_fallback:loop", "_generate_with_fallback"}

RateLimited(call) ==
  call.outcome.kind = "exception" /\ IsRateLimit(call.outcome.exc)

FallbackSafe ==
  InFallback =>
    LET calls == ret.arg.calls
        n == Len(calls)
    IN  /\ n <= Len(Models)
        /\ \A k \in 1..n : calls[k].model = Models[k]
        /\ \A k \in 1..n : k < n => RateLimited(calls[k])
        /\ ret.op = "_generate_with_fallback:loop" =>
              /\ n < Len(Models)
              /\ \A k \in 1..n : RateLimited(calls[k])
        /\ ret.op = "_generate_with_fallback" =>
              /\ n >= 1
              /\ IF calls[n].outcome.kind = "response"
                 THEN /\ ~ret.raised
                      /\ ret.value = TextOrPlaceholder(calls[n].outcome.text)
                 ELSE IF RateLimited(calls[n])
                      THEN /\ n = Len(Models)
                           /\ ~ret.raised
                           /\ ret.value = RateLimitMessage(calls[n].outcome.exc)
                      ELSE /\ ret.raised
                           /\ ret.value = Raised(calls[n].outcome.exc)

MaxStoredPorts == 2

\* The port variables of the prompts, in the order parse_variables finds them
\* (allocate_ports takes any list: with a repeated name too).
PortVarLists ==
  {<<"frontend_port">>, <<"frontend_port", "frontend_api_port">>,
   <<"frontend_port", "frontend_port">>, <<"port", "frontend_api_port">>}

NextPorts ==
  \/ \E path \in RawPaths : AddProject("one", path, "")
  \/ \E path \in RawPaths : ArchiveProject(path)
  \/ \E path \in RawPaths : UnarchiveProject(path)
  \/ \E path \in RawPaths : DeleteProject(path)
  \/ \E port_var_names \in PortVarLists :
       AllocatePorts(port_var_names, MaxStoredPorts)
  \/ \E path \in RawPaths : SetProjectPorts(path)

SpecPorts == Init /\ [][NextPorts]_vars

\* The port variables of the registered projects: list, position, variable.
ProjectVariables ==
  {<<l, i, v>> \in {"projects", "archived_projects"} \X (1..4) \X PortVarNames :
     i \in DOMAIN config[l] /\ v \in DOMAIN config[l][i].ports}

PortOf(x) == config[x[1]][x[2]].ports[x[3]]

NoSharedPort ==
  \A x, y \in ProjectVariables : x /= y => PortOf(x) /= PortOf(y)

\* What a step of allocate_ports hands back, against the registry it read.
AllocationFresh ==
  ret'.op = "allocate_ports" =>
    LET a == pending_port_assignments'
    IN  /\ DOMAIN a = Range(ret'.arg.names)
        /\ \A v, w \in DOMAIN a : v /= w => a[v] /= a[w]
        /\ \A v \in DOMAIN a :
             /\ a[v] >= port_range_for(v)
             /\ \A x \in ProjectVariables : a[v] /= PortOf(x)

C26_EachPairOnce ==
  ret.op = "get_pending_feedback" =>
    \A a, b \in DOMAIN ret.value :
       a /= b =>
         \/ ret.value[a].prompt_filename /= ret.value[b].prompt_filename
         \/ ret.value[a].project_path /= ret.value[b].project_path

\* ------------------------------------------------------------- claim C27
MaxStatsEvents == 3

StatsCalls ==
  {ApplyPrompt("p.md", j) : j \in Projects} \cup {ApplyPrompt("q.md", "/proj/b")}

NextStats ==
  \/ \E call \in StatsCalls : LogEvent(call, "none", MaxStatsEvents)
  \/ Tick(MaxActivityClock)
  \/ ClockBack(0)
  \/ \E fn \in QueryNames, fault \in ReadFaults : GetPromptStats(fn, fault)

SpecStats == Init /\ [][NextStats]_vars

\* The prompt_applied events of the prompt, read off the log.
ApplicationsOf(fn) ==
  {i \in DOMAIN events :
     events[i].event = "prompt_applied" /\ events[i].prompt_filename = fn}

\* C27: in what get_prompt_stats returns, last_used is null iff times_used is
\* 0; a non-null last_used is the greatest timestamp among the prompt's
\* prompt_applied events; projects has at most times_used entries and lists
\* no project twice.
C27_StatsConsistent ==
  ret.op = "get_prompt_stats" =>
    LET s == ret.value
    IN  /\ (s.last_used = None) <=> (s.times_used = 0)
        /\ s.last_used /= None =>
             /\ \E i \in ApplicationsOf(ret.arg) : events[i].timestamp = s.last_used
             /\ \A i \in ApplicationsOf(ret.arg) : events[i].timestamp <= s.last_used
        /\ Len(s.projects) <= s.times_used
        /\ \A a, b \in DOMAIN s.projects : a /= b => s.projects[a] /= s.projects[b]

\* The prompt's last application was appended after the clock stepped back:
\* last_used is a later timestamp than that of the application appended last;
\* three applications went to two projects.
C27_Witness ==
  /\ ret.op = "get_prompt_stats"
  /\ ret.arg = "p.md"
  /\ ret.value.times_used = 3
  /\ Len(ret.value.projects) = 2
  /\ ApplicationsOf("p.md") /= {}
  /\ events[MaxOf(ApplicationsOf("p.md"))].timestamp < ret.value.last_used

\* ------------------------------------------------------------- claim C28
MaxCounterEvents == 3

CounterCalls ==
  {ApplyPrompt("p.md", j) : j \in Projects}
  \cup {FeedbackGiven("p.md", "/proj/a", MaxRating), PromptEdited("p.md"),
        ProjectCreated("p.md", "/proj/a")}

NextCounters ==
  \/ \E call \in CounterCalls, fault \in LogFaults :
       LogEvent(call, fault, MaxCounterEvents)
  \/ \E fn \in QueryNames, fault \in ReadFaults : GetPromptStats(fn, fault)
  \/ \E fault \in ReadFaults : GetOverallStats(fault)

SpecCounters == Init /\ [][NextCounters]_vars

StatsGE(later, earlier) ==
  /\ later.times_used >= earlier.times_used
  /\ later.edit_count >= earlier.edit_count
  /\ later.rating_count >= earlier.rating_count
  /\ Range(earlier.projects) \subseteq Range(later.projects)

OverallGE(later, earlier) ==
  /\ later.total_projects_created >= earlier.total_projects_created
  /\ later.total_prompt_applications >= earlier.total_prompt_applications
  /\ later.total_prompts_used >= earlier.total_prompts_used

\* A query follows a query of the same thing.
QueryAgain ==
  /\ ret.op \in {"get_prompt_stats", "get_overall_stats"}
  /\ ret'.op = ret.op
  /\ ret'.arg = ret.arg

LaterGE ==
  IF ret.op = "get_prompt_stats" THEN StatsGE(ret'.value, ret.value)
  ELSE OverallGE(ret'.value, ret.value)

\* What the queries return on a log when they meet no storage failure.
AnswersGE(later, earlier) ==
  /\ \A fn \in QueryNames :
       StatsGE(get_prompt_stats(later, fn, "none").value,
               get_prompt_stats(earlier, fn, "none").value)
  /\ \A o2 \in get_overall_stats(later, now, "none"),
        o1 \in get_overall_stats(earlier, now, "none") :
       OverallGE(o2.value, o1.value)

MaxTotalsEvents == 4

\* Applications of two prompts and one without a prompt (log_event's default
\* prompt_filename=None), and an edit of a prompt.
TotalsCalls ==
  {ApplyPrompt(p, "/proj/a") : p \in Prompts \cup {NULL}}
  \cup {PromptEdited("q.md")}

NextTotals ==
  \/ \E call \in TotalsCalls : LogEvent(call, "none", MaxTotalsEvents)
  \/ GetOverallStats("none")
  \/ GetAllPromptStats("none")

SpecTotals == Init /\ [][NextTotals]_vars

\* The prompt_applied events with a null prompt_ref.
NullApplications ==
  {i \in DOMAIN events :
     events[i].event = "prompt_applied" /\ events[i].prompt_filename = NULL}

TotalsAgree(overall, all) ==
  /\ overall.total_prompts_used =
       Cardinality({fn \in DOMAIN all : all[fn].times_used > 0})
  /\ overall.total_prompt_applications =
       SumOver([fn \in DOMAIN all |-> all[fn].times_used], DOMAIN all)
       + Cardinality(NullApplications)
  /\ overall.total_prompts_used <= overall.total_prompt_applications

\* C29: on one log, total_prompts_used of get_overall_stats is the number of
\* entries of get_all_prompt_stats with times_used > 0, and
\* total_prompt_applications is the sum of their times_used plus the number
\* of prompt_applied events with a null prompt_ref; total_prompts_used is at
\* most total_prompt_applications.
C29_TotalsAgree ==
  /\ ret.op = "get_overall_stats" =>
       TotalsAgree(ret.value, get_all_prompt_stats(events, "none").value)
  /\ ret.op = "get_all_prompt_stats" =>
       \A o \in get_overall_stats(events, now, "none") :
          TotalsAgree(o.value, ret.value)

\* The batch holds a prompt that was applied and one that was only edited,
\* and the log holds an application without a prompt.
C29_Witness ==
  /\ ret.op = "get_all_prompt_stats"
  /\ DOMAIN ret.value = {"p.md", "q.md"}
  /\ ret.value["p.md"].times_used = 2
  /\ ret.value["q.md"].times_used = 0
  /\ NullApplications /= {}

\* ------------------------------------------------------------- claim C30
NextRegistry ==
  \/ \E name \in ProjectNames, path \in RawPaths, repo \in Repos :
       AddProject(name, path, repo)
  \/ \E path \in RawPaths : RemoveProject(path)
  \/ \E path \in RawPaths : ArchiveProject(path)
  \/ \E path \in RawPaths : UnarchiveProject(path)
  \/ \E path \in RawPaths : DeleteProject(path)

SpecRegistry == Init /\ [][NextRegistry]_vars

PathsOf(lst) == {lst[i].path : i \in DOMAIN lst}

NoRepeat(lst) == \A a, b \in DOMAIN lst : a /= b => lst[a].path /= lst[b].path

\* C30: no project path is in both the active list and the archived list,
\* and no path is twice in either list.
C30_OnePlace ==
  /\ PathsOf(config.projects) \cap PathsOf(config.archived_projects) = {}
  /\ NoRepeat(config.projects)
  /\ NoRepeat(config.archived_projects)

====
